---- MODULE Spec2Model ----
(***************************************************************************)
(* Model of dsp/utils/cache.py: the SQLite record store (SQLiteCache) and  *)
(* the caching decorator (sqlite_cache_wrapper).                           *)
(*                                                                         *)
(* Strings that are composed or compared character by character (the text  *)
(* that _hash digests) are sequences of tokens.  Exceptions are values:    *)
(* every store operation yields a record [exc, val] whose exc field names  *)
(* the raised exception ("" when the call returns).                        *)
(*                                                                         *)
(* Specifications: Spec, the decorated function called by clients;         *)
(* SpecStore, a client of a SQLiteCache; SpecLock, threads that share      *)
(* one SQLiteCache; SpecHash, the fingerprint of a call; SpecRace, the     *)
(* invocations of one call under fair scheduling.                          *)
(***************************************************************************)
EXTENDS Integers, Sequences, FiniteSets, TLC

\* ---------------------------------------------------------------- bounds
MaxTime == 1
MaxRows == 1
MaxInv == 2
MaxThreads == 2

\* ------------------------------------------------------------- constants
FAILED == 0
PENDING == 1
COMPLETED == 2
MAX_POLL_TIME == 10

Times == 0 .. MaxTime
\* float("inf"): greater than every finite timestamp
Inf == MaxTime + 1
Bounds == Times \cup {Inf}
Branches == {0, 1}
Statuses == {FAILED, PENDING, COMPLETED}
Invocations == 1 .. MaxInv
\* the threads that share one SQLiteCache (check_same_thread=False)
Threads == 1 .. MaxThreads

\* Python's None / SQL NULL
None == "None"
\* an integer that stands for "argument not given" where the others are integers
Omitted == -1

\* wrapped functions: __name__ and what a call of it does
Funcs == {"ok", "boom"}
Succeeds(func) == func = "ok"

Ret(v) == [exc |-> "", val |-> v]
Raise(e) == [exc |-> e, val |-> None]

\* --------------------------------------------------------------- helpers
RECURSIVE join(_)
\* ','.join(parts), each part a token sequence
join(parts) ==
    IF parts = <<>> THEN <<>>
    ELSE IF Len(parts) = 1 THEN parts[1]
    ELSE parts[1] \o <<",">> \o join(Tail(parts))

\* dict.get(key, default) on a dict kept as a sequence of <<key, value>> items
get(kwargs, key, default) ==
    IF \E n \in 1 .. Len(kwargs) : kwargs[n][1] = key
    THEN LET n == CHOOSE n \in 1 .. Len(kwargs) : kwargs[n][1] = key IN kwargs[n][2]
    ELSE default

filter_keys(input_dict, keys_to_ignore) ==
    SelectSeq(input_dict, LAMBDA item : item[1] \notin keys_to_ignore)

\* the keyword names of the model in Python's string order
KeyOrder == <<"k", "q">>
KeyRank(key) == CHOOSE n \in 1 .. Len(KeyOrder) : KeyOrder[n] = key

\* the items left in the order of the call
unsorted(items) == items

RECURSIVE sorted(_)
\* sorted(kwargs.items(), key=lambda x: x[0]); the keys of a dict are distinct
sorted(items) ==
    IF items = <<>> THEN <<>>
    ELSE LET n == CHOOSE n \in 1 .. Len(items) :
                    \A m \in 1 .. Len(items) : KeyRank(items[n][1]) <= KeyRank(items[m][1])
         IN <<items[n]>> \o sorted(SelectSeq(items, LAMBDA item : item[1] # items[n][1]))

\* hashlib.sha256(s.encode()).hexdigest(): collision-free, so the digest is
\* identified with the text it digests
hexdigest(s) == s

_hash(func, args, kwargs) ==
    LET func_name == <<func>>
        sorted_kwargs == sorted(kwargs)
        args_str == join(args)
        kwargs_str == join([n \in 1 .. Len(sorted_kwargs) |->
                              <<sorted_kwargs[n][1], "=">> \o sorted_kwargs[n][2]])
        combined_str == func_name \o <<"(">> \o args_str \o <<",">> \o kwargs_str \o <<")">>
    IN hexdigest(combined_str)

ReservedKeys == {"worker_id", "cache_branch", "experiment_start_timestamp",
                 "experiment_end_timestamp"}

\* the positional arguments and the non-reserved keyword arguments of the model
ArgsSet == { << <<"a">> >> }
Hashes == { _hash(func, args, <<>>) : func \in Funcs, args \in ArgsSet }
\* what a wrapped function returns / the traceback text of what it raises
Values == {"r1", "r2"}

VARIABLES
    now,      \* the wall clock: datetime.now().timestamp(), CURRENT_TIMESTAMP
    table,    \* the cache table exists in the database file
    rows,     \* the rows of the cache table, in insertion order
    conn,     \* self.conn of a SQLiteCache instance that a client uses directly
    last,     \* the last call on that instance: operation, arguments, outcome
    inv,      \* the invocations of the decorated function
    calls,    \* the executions of the wrapped function: the invocation of each
    lock,     \* self.lock of that instance: the thread that holds it, or 0
    running   \* the method each thread is executing a statement of, on self.conn

vars == <<now, table, rows, conn, last, inv, calls, lock, running>>

\* ----------------------------------------------------------- SQLiteCache
\* SQLiteCache.__init__: no connection yet
SQLiteCache == None

\* "with self.conn:" on the connection of the instance
with_conn(self_conn) ==
    IF self_conn = None THEN Raise("TypeError")
    ELSE IF self_conn = "closed" THEN Raise("ProgrammingError")
    ELSE Ret(None)

\* pickle.dumps(obj): the value serialized
pickle_dumps(obj) == Ret(obj)

\* pickle.dump(obj) without the file argument
pickle_dump(obj) == Raise("TypeError")

\* pickle.load(blob) on a bytes value (or NULL) instead of a file
pickle_load(blob) == Raise("TypeError")

\* the start bound compared with > in place of >=
in_timerange_exclusive(row, start_time, end_time) ==
    /\ row.timestamp > start_time
    /\ IF end_time # Inf THEN row.timestamp <= end_time ELSE TRUE

\* WHERE timestamp >= ? [AND timestamp <= ?], the end bound added unless infinite
in_timerange(row, start_time, end_time) ==
    /\ row.timestamp >= start_time
    /\ IF end_time # Inf THEN row.timestamp <= end_time ELSE TRUE

insert_operation_started(self_conn, db, operation_hash, branch_idx, timestamp) ==
    LET row_idx == Len(db) + 1
        entered == with_conn(self_conn)
    IN IF entered.exc # "" THEN [out |-> entered, db |-> db]
       ELSE [out |-> Ret(row_idx),
             db |-> Append(db, [row_idx |-> row_idx, branch_idx |-> branch_idx,
                                operation_hash |-> operation_hash,
                                insert_timestamp |-> now, timestamp |-> timestamp,
                                status |-> PENDING, result |-> None])]

\* the status of the row written without its result
update_status_only(self_conn, db, operation_hash, branch_idx, result, start_time, end_time, row_idx, status) ==
    LET entered == with_conn(self_conn)
    IN IF entered.exc # "" THEN [out |-> entered, db |-> db]
       ELSE [out |-> Ret(None),
             db |-> [n \in 1 .. Len(db) |->
                       IF db[n].row_idx = row_idx
                       THEN [db[n] EXCEPT !.status = status]
                       ELSE db[n]]]

update_operation_status(self_conn, db, operation_hash, branch_idx, result, start_time, end_time, row_idx, status) ==
    LET pickled == pickle_dump(result)
        entered == with_conn(self_conn)
        matches(row) ==
            IF row_idx = Omitted
            THEN /\ row.operation_hash = operation_hash
                 /\ row.branch_idx = branch_idx
                 /\ row.status = PENDING
                 /\ row.timestamp >= start_time
            ELSE row.row_idx = row_idx
    IN IF pickled.exc # "" THEN [out |-> pickled, db |-> db]
       ELSE IF entered.exc # "" THEN [out |-> entered, db |-> db]
       \* the filter form appends "AND timestamp <= ?" without its parameter
       ELSE IF row_idx = Omitted /\ end_time # Inf
            THEN [out |-> Raise("ProgrammingError"), db |-> db]
       ELSE [out |-> Ret(None),
             db |-> [n \in 1 .. Len(db) |->
                       IF matches(db[n])
                       THEN [db[n] EXCEPT !.status = status, !.result = pickled.val]
                       ELSE db[n]]]

\* the existence check without "branch_idx = ?"
check_in_any_branch(self_conn, db, operation_hash, branch_idx, start_time, end_time, status) ==
    LET entered == with_conn(self_conn)
        count == Cardinality({n \in 1 .. Len(db) :
                     /\ db[n].operation_hash = operation_hash
                     /\ db[n].status = status
                     /\ in_timerange(db[n], start_time, end_time)})
    IN IF entered.exc # "" THEN entered ELSE Ret(count > 0)

check_if_record_exists_with_status(self_conn, db, operation_hash, branch_idx, start_time, end_time, status) ==
    LET entered == with_conn(self_conn)
        count == Cardinality({n \in 1 .. Len(db) :
                     /\ db[n].operation_hash = operation_hash
                     /\ db[n].branch_idx = branch_idx
                     /\ db[n].status = status
                     /\ in_timerange(db[n], start_time, end_time)})
    IN IF entered.exc # "" THEN entered ELSE Ret(count > 0)

\* ORDER BY status DESC, insert_timestamp ASC LIMIT 1: the rows that may come first
first_rows(db, selected) ==
    {n \in selected : \A m \in selected :
        \/ db[n].status > db[m].status
        \/ /\ db[n].status = db[m].status
           /\ db[n].insert_timestamp <= db[m].insert_timestamp}

\* yields the set of outcomes: rows that tie in the ORDER BY come in any order
retrieve_earliest_record(self_conn, db, function_hash, cache_branch, range_start_timestamp, range_end_timestamp, retrieve_status, return_record_result) ==
    LET entered == with_conn(self_conn)
        selected == {n \in 1 .. Len(db) :
                     \* LIKE without wildcards on a lower-case hex digest: equality
                     /\ db[n].operation_hash = function_hash
                     /\ db[n].branch_idx = cache_branch
                     /\ in_timerange(db[n], range_start_timestamp, range_end_timestamp)
                     /\ (retrieve_status # Omitted => db[n].status = retrieve_status)}
    IN IF entered.exc # "" THEN {entered}
       ELSE IF selected = {} THEN {Ret(<<FALSE, None>>)}
       ELSE IF return_record_result
            THEN {LET loaded == pickle_load(db[n].result)
                  IN IF loaded.exc # "" THEN loaded ELSE Ret(<<TRUE, loaded.val>>)
                  : n \in first_rows(db, selected)}
       ELSE {Ret(<<TRUE, None>>)}

\* ------------------------------------------------- the state at the start
NoCall == [op |-> "none"]
Idle == [pc |-> "idle"]

Init ==
    /\ now = 0
    /\ table = FALSE
    /\ rows = <<>>
    /\ conn = SQLiteCache
    /\ last = NoCall
    /\ inv = [i \in Invocations |-> Idle]
    /\ calls = <<>>
    /\ lock = 0
    /\ running = [t \in Threads |-> None]

\* the wall clock advances
Tick ==
    /\ now < MaxTime
    /\ now' = now + 1
    /\ UNCHANGED <<table, rows, conn, last, inv, calls, lock, running>>

\* ------------------------------- a client that uses a SQLiteCache directly
\* one call at a time: the client holds the outcome of its call in last until
\* it is done with it
client_return ==
    /\ last # NoCall
    /\ last' = NoCall
    /\ UNCHANGED <<now, table, rows, conn, inv, calls, lock, running>>

\* SQLiteCache.__enter__: connect, then create_table_if_not_exists, which takes
\* self.lock
__enter__ ==
    /\ last = NoCall
    /\ lock = 0
    /\ conn' = "open"
    /\ table' = TRUE
    /\ last' = [op |-> "__enter__"]
    /\ UNCHANGED <<now, rows, inv, calls, lock, running>>

\* SQLiteCache.__exit__: self.conn.close()
__exit__ ==
    /\ last = NoCall
    /\ conn # None
    /\ conn' = "closed"
    /\ last' = [op |-> "__exit__"]
    /\ UNCHANGED <<now, table, rows, inv, calls, lock, running>>

client_insert(operation_hash, branch_idx, timestamp) ==
    LET call == insert_operation_started(conn, rows, operation_hash, branch_idx, timestamp)
    IN /\ last = NoCall
       /\ Len(rows) < MaxRows
       /\ rows' = call.db
       /\ last' = [op |-> "insert", out |-> call.out]
       /\ UNCHANGED <<now, table, conn, inv, calls, lock, running>>

client_update(operation_hash, branch_idx, result, start_time, end_time, row_idx, status) ==
    LET call == update_operation_status(conn, rows, operation_hash, branch_idx, result,
                                        start_time, end_time, row_idx, status)
    IN /\ last = NoCall
       /\ rows' = call.db
       /\ last' = [op |-> "update", row_idx |-> row_idx, status |-> status,
                   out |-> call.out]
       /\ UNCHANGED <<now, table, conn, inv, calls, lock, running>>

client_check(operation_hash, branch_idx, start_time, end_time, status) ==
    /\ last = NoCall
    /\ last' = [op |-> "check", operation_hash |-> operation_hash,
                branch_idx |-> branch_idx, start_time |-> start_time,
                end_time |-> end_time, status |-> status,
                out |-> check_if_record_exists_with_status(
                            conn, rows, operation_hash, branch_idx,
                            start_time, end_time, status)]
    /\ UNCHANGED <<now, table, rows, conn, inv, calls, lock, running>>

client_retrieve(function_hash, cache_branch, range_start_timestamp, range_end_timestamp, retrieve_status, return_record_result) ==
    /\ last = NoCall
    /\ \E out \in retrieve_earliest_record(
                      conn, rows, function_hash, cache_branch, range_start_timestamp,
                      range_end_timestamp, retrieve_status, return_record_result) :
          last' = [op |-> "retrieve", operation_hash |-> function_hash,
                   branch_idx |-> cache_branch, start_time |-> range_start_timestamp,
                   end_time |-> range_end_timestamp, status |-> retrieve_status,
                   return_record_result |-> return_record_result, out |-> out]
    /\ UNCHANGED <<now, table, rows, conn, inv, calls, lock, running>>

Insert ==
    \E h \in Hashes, b \in Branches, t \in Times : client_insert(h, b, t)

\* addressed by the id of a row (the window arguments are then not used)
UpdateById ==
    \E id \in 1 .. Len(rows), r \in Values, st \in {FAILED, COMPLETED} :
        client_update(rows[id].operation_hash, rows[id].branch_idx, r, 0, Inf, id, st)

\* addressed by the filter
UpdateByFilter ==
    \E h \in Hashes, b \in Branches, r \in Values, s \in Times, e \in Bounds,
       st \in {FAILED, COMPLETED} :
        client_update(h, b, r, s, e, Omitted, st)

Check ==
    \E h \in Hashes, b \in Branches, s \in Times, e \in Bounds, st \in Statuses :
        client_check(h, b, s, e, st)

Retrieve ==
    \E h \in Hashes, b \in Branches, s \in Times, e \in Bounds,
       st \in Statuses \cup {Omitted}, want \in BOOLEAN :
        client_retrieve(h, b, s, e, st, want)

\* the store on its own; no lookup and no update reads the clock
NextStore ==
    \/ __enter__
    \/ __exit__
    \/ Insert
    \/ UpdateById
    \/ UpdateByFilter
    \/ Check
    \/ Retrieve
    \/ client_return

SpecStore == Init /\ [][NextStore]_vars

\* ------------------------------------------------- sqlite_cache_wrapper
\* the keyword arguments of a call: the reserved ones that are given
Kwargs(cache_branch, start, end) ==
    (IF cache_branch = Omitted THEN <<>> ELSE << <<"cache_branch", cache_branch>> >>)
    \o (IF start = Omitted THEN <<>> ELSE << <<"experiment_start_timestamp", start>> >>)
    \o (IF end = Omitted THEN <<>> ELSE << <<"experiment_end_timestamp", end>> >>)

KwargsSet ==
    { Kwargs(b, s, e) : b \in Branches \cup {Omitted}, s \in Times \cup {Omitted},
                        e \in Bounds \cup {Omitted} }

\* the statuses that have a row of this fingerprint and branch in the window
StatusesInWindow(db, operation_hash, branch_idx, start_time, end_time) ==
    { db[n].status : n \in { m \in 1 .. Len(db) :
                               /\ db[m].operation_hash = operation_hash
                               /\ db[m].branch_idx = branch_idx
                               /\ db[m].timestamp >= start_time
                               /\ db[m].timestamp <= end_time } }

Done(i) == inv[i].pc = "done"

\* what the wrapped function raises, and traceback.format_exception of it
BoomError == [exc |-> "RuntimeError", val |-> "boom"]
format_exception(exc) == "Traceback: RuntimeError: boom"

\* the wrapped function: a value of its own choosing, or its exception
func_call(func) ==
    IF Succeeds(func) THEN { Ret(v) : v \in Values } ELSE { BoomError }

\* wrapper, up to the first lookup: the store, the request time, the reserved
\* keyword arguments and the fingerprint
wrapper_call(i, func, args, kwargs) ==
    LET cache_client == SQLiteCache
        request_time == now
        cache_branch == get(kwargs, "cache_branch", 0)
        start_time == get(kwargs, "experiment_start_timestamp", 0)
        end_time == get(kwargs, "experiment_end_timestamp", Inf)
        forwarded == filter_keys(kwargs, ReservedKeys)
        function_hash == _hash(func, args, forwarded)
    IN /\ inv[i].pc = "idle"
       /\ inv' = [inv EXCEPT ![i] =
                    [pc |-> "check_completed", func |-> func, args |-> args,
                     \* kwargs after filter_keys: what is hashed and forwarded
                     kwargs |-> forwarded,
                     cache_client |-> cache_client, request_time |-> request_time,
                     cache_branch |-> cache_branch, start_time |-> start_time,
                     end_time |-> end_time, function_hash |-> function_hash,
                     polling_start_time |-> 0, row_idx |-> Omitted,
                     result |-> None, exc |-> Ret(None), out |-> Ret(None),
                     \* history: the invocations that had ended when this one
                     \* began, and what the table held for the first lookup
                     after |-> {j \in Invocations : Done(j)}, seen |-> {}]]
       /\ UNCHANGED <<now, table, rows, conn, last, calls, lock, running>>

\* an exception leaves wrapper
raised(self, e) == [self EXCEPT !.pc = "done", !.out = e]
\* "return result"
returned(self, result) == [self EXCEPT !.pc = "done", !.out = Ret(result)]

\* "cache_client.retrieve_earliest_record(...)" of wrapper, with
\* return_record_result=True
retrieved(self, db, status) ==
    retrieve_earliest_record(self.cache_client, db, self.function_hash, self.cache_branch,
                             self.start_time, self.end_time, status, TRUE)

\* one step of wrapper after the call: a store operation, or the call of the
\* wrapped function, with the local statements that follow it.  Yields the
\* possible [self, db, calls] after the step.
wrapper_steps(i, self, db) ==
    LET exists(status) ==
            check_if_record_exists_with_status(
                self.cache_client, db, self.function_hash, self.cache_branch,
                self.start_time, self.end_time, status)
        only(next_self) == { [self |-> next_self, db |-> db, calls |-> calls] }
        all(next_selves) == { [self |-> n, db |-> db, calls |-> calls] : n \in next_selves }
    IN CASE self.pc = "check_completed" ->
              LET e == exists(COMPLETED)
                  looked == [self EXCEPT !.seen =
                                StatusesInWindow(db, self.function_hash, self.cache_branch,
                                                 self.start_time, self.end_time)]
              IN only(IF e.exc # "" THEN raised(looked, e)
                      ELSE IF e.val THEN [looked EXCEPT !.pc = "retrieve_completed"]
                      ELSE [looked EXCEPT !.pc = "check_pending"])
         [] self.pc \in {"retrieve_completed", "poll_retrieve", "retrieve_final"} ->
              \* "_, result = ...; return result"
              all({ IF got.exc # "" THEN raised(self, got) ELSE returned(self, got.val[2]) :
                    got \in retrieved(self, db, COMPLETED) })
         [] self.pc = "check_pending" ->
              LET e == exists(PENDING)
              IN only(IF e.exc # "" THEN raised(self, e)
                      ELSE IF e.val
                      THEN [self EXCEPT !.pc = "poll", !.polling_start_time = now]
                      ELSE [self EXCEPT !.pc = "check_failed"])
         [] self.pc = "poll" ->
              LET e == exists(COMPLETED)
              IN only(IF ~(now - self.polling_start_time < MAX_POLL_TIME)
                      THEN raised(self, [exc |-> "Exception", val |-> "poll timeout"])
                      ELSE IF e.exc # "" THEN raised(self, e)
                      ELSE IF e.val THEN [self EXCEPT !.pc = "poll_retrieve"]
                      \* time.sleep(POLL_INTERVAL)
                      ELSE self)
         [] self.pc = "check_failed" ->
              LET e == exists(FAILED)
              IN only(IF e.exc # "" THEN raised(self, e)
                      ELSE IF e.val /\ self.end_time < self.request_time
                      THEN [self EXCEPT !.pc = "retrieve_failed"]
                      ELSE IF self.end_time < self.request_time
                      THEN raised(self, [exc |-> "Exception", val |-> "cache does not exist"])
                      ELSE [self EXCEPT !.pc = "insert"])
         [] self.pc = "retrieve_failed" ->
              \* "_, result = ...; raise Exception(result)"
              all({ IF got.exc # "" THEN raised(self, got)
                    ELSE raised(self, [exc |-> "Exception", val |-> got.val[2]]) :
                    got \in retrieved(self, db, FAILED) })
         [] self.pc = "insert" ->
              LET call == insert_operation_started(
                              self.cache_client, db, self.function_hash,
                              self.cache_branch, self.request_time)
              IN { [self |-> IF call.out.exc # "" THEN raised(self, call.out)
                             ELSE [self EXCEPT !.pc = "compute", !.row_idx = call.out.val],
                    db |-> call.db, calls |-> calls] }
         [] self.pc = "compute" ->
              { [self |-> IF r.exc # ""
                          THEN [self EXCEPT !.pc = "update_failed", !.exc = r,
                                            !.result = format_exception(r)]
                          ELSE [self EXCEPT !.pc = "update_completed", !.result = r.val],
                 db |-> db, calls |-> Append(calls, i)] : r \in func_call(self.func) }
         [] self.pc \in {"update_failed", "update_completed"} ->
              LET call == update_operation_status(
                              self.cache_client, db, self.function_hash, self.cache_branch,
                              self.result, self.start_time, self.end_time, self.row_idx,
                              IF self.pc = "update_failed" THEN FAILED ELSE COMPLETED)
              IN { [self |-> IF call.out.exc # "" THEN raised(self, call.out)
                             \* "raise exc"
                             ELSE IF self.pc = "update_failed" THEN raised(self, self.exc)
                             ELSE [self EXCEPT !.pc = "retrieve_final"],
                    db |-> call.db, calls |-> calls] }
         [] OTHER -> {}

wrapper_step(i) ==
    \E step \in wrapper_steps(i, inv[i], rows) :
        /\ inv' = [inv EXCEPT ![i] = step.self]
        /\ rows' = step.db
        /\ calls' = step.calls
        /\ UNCHANGED <<now, table, conn, last, lock, running>>

Call ==
    \E i \in Invocations, func \in Funcs, args \in ArgsSet, kwargs \in KwargsSet :
        wrapper_call(i, func, args, kwargs)

Step == \E i \in Invocations : wrapper_step(i)

Next ==
    \/ Tick
    \/ __enter__
    \/ Insert
    \/ client_return
    \/ Call
    \/ Step

Spec == Init /\ [][Next]_vars

\* Every invocation ends in its first lookup: the store that wrapper constructs
\* is never entered, so "with self.conn" raises; no later step of wrapper runs.
WrapperEndsInFirstLookup ==
    \A i \in Invocations :
        /\ inv[i].pc \in {"idle", "check_completed", "done"}
        /\ Done(i) => inv[i].out = Raise("TypeError")

\* ------------------------------------------------------------ the claims
\* how an invocation ended
Returned(i) == Done(i) /\ inv[i].out.exc = ""
\* raise Exception("Failed to retrieve result from cache after polling.")
PollTimedOut(i) == Done(i) /\ inv[i].out = [exc |-> "Exception", val |-> "poll timeout"]
\* raise Exception(result), result the stored failure text
ReplayedFailure(i) ==
    Done(i) /\ inv[i].out = [exc |-> "Exception", val |-> format_exception(BoomError)]
\* raise Exception("Cache does not exist for the given experiment timerange ...")
MissingRecord(i) == Done(i) /\ inv[i].out = [exc |-> "Exception", val |-> "cache does not exist"]
Executed(i) == \E n \in 1 .. Len(calls) : calls[n] = i
Executions(function_hash, cache_branch) ==
    Cardinality({n \in 1 .. Len(calls) :
                   /\ inv[calls[n]].function_hash = function_hash
                   /\ inv[calls[n]].cache_branch = cache_branch})
SameCall(i, j) ==
    /\ inv[i].func = inv[j].func
    /\ inv[i].function_hash = inv[j].function_hash
    /\ inv[i].cache_branch = inv[j].cache_branch
OpenWindow(i) == inv[i].end_time >= inv[i].request_time
ClosedWindow(i) == inv[i].end_time < inv[i].request_time
DefaultWindow(i) == inv[i].start_time = 0 /\ inv[i].end_time = Inf
\* s <= T <= e, an infinite e being no limit
InWindow(T, s, e) == s <= T /\ (e = Inf \/ T <= e)
\* the rows of the fingerprint and branch of an invocation that are now in its window
Matching(i) ==
    {n \in 1 .. Len(rows) :
        /\ rows[n].operation_hash = inv[i].function_hash
        /\ rows[n].branch_idx = inv[i].cache_branch
        /\ InWindow(rows[n].timestamp, inv[i].start_time, inv[i].end_time)}
\* their statuses
InWindowNow(i) == { rows[n].status : n \in Matching(i) }
\* the statuses of those that another attempt inserted
OthersInWindow(i) == { rows[n].status : n \in { m \in Matching(i) : m # inv[i].row_idx } }
\* no row in the window of i has come from anything but the invocations in I
OnlyFrom(I, i) == \A n \in Matching(i) : \E k \in I : inv[k].row_idx = n

\* C1 (Idempotence): from a store with no matching record, two invocations one
\* after the other, same operation, arguments and branch, window [0, +infinity),
\* the operation succeeding, execute the operation exactly once and return the
\* same result.
C1_Idempotence ==
    \A i, j \in Invocations :
        ( /\ i # j /\ Done(i) /\ Done(j)
          /\ i \in inv[j].after
          /\ SameCall(i, j)
          /\ DefaultWindow(i) /\ DefaultWindow(j)
          /\ Succeeds(inv[i].func)
          /\ OnlyFrom({i, j}, i) )
        => /\ Executions(inv[i].function_hash, inv[i].cache_branch) = 1
           /\ Returned(i) /\ Returned(j)
           /\ inv[i].out.val = inv[j].out.val

\* C2 (Concurrent dedup): an invocation whose lookups find a Pending record of
\* its fingerprint and branch in its window (and no Completed one) polls: it
\* ends with the Completed result or with the poll timeout, and it never
\* executes the operation itself.
C2_ConcurrentDedup ==
    \A j \in Invocations :
        ( /\ Done(j)
          /\ PENDING \in inv[j].seen
          /\ COMPLETED \notin inv[j].seen )
        => /\ Returned(j) \/ PollTimedOut(j)
           /\ ~Executed(j)

\* C3 (Failure replay): after an invocation on an open window whose operation
\* raised, a later invocation of the same fingerprint and branch whose window
\* holds that attempt and has closed raises the stored failure and does not
\* execute the operation.
C3_FailureReplay ==
    \A i, j \in Invocations :
        ( /\ i # j /\ Done(i) /\ Done(j)
          /\ i \in inv[j].after
          /\ SameCall(i, j)
          /\ ~Succeeds(inv[i].func)
          /\ OpenWindow(i) /\ OnlyFrom({i}, i)
          /\ InWindow(inv[i].request_time, inv[j].start_time, inv[j].end_time)
          /\ ClosedWindow(j)
          /\ InWindowNow(j) \cap {COMPLETED, PENDING} = {} )
        => ReplayedFailure(j) /\ ~Executed(j)

\* C4 (Closed-window miss): an invocation whose window ended before its request
\* time and holds no record of any status ends with the missing-record error
\* and never executes the operation.
C4_ClosedWindowMiss ==
    \A i \in Invocations :
        (Done(i) /\ ClosedWindow(i) /\ InWindowNow(i) = {})
        => MissingRecord(i) /\ ~Executed(i)

\* C5 (Reopen after failure): after an invocation on an open window whose
\* operation raised, a new invocation of the same fingerprint and branch on a
\* still open window that holds that attempt and nothing but failures does not
\* replay the failure: it executes the operation again.
C5_ReopenAfterFailure ==
    \A i, j \in Invocations :
        ( /\ i # j /\ Done(i) /\ Done(j)
          /\ i \in inv[j].after
          /\ SameCall(i, j)
          /\ ~Succeeds(inv[i].func)
          /\ OpenWindow(i) /\ OnlyFrom({i}, i)
          /\ InWindow(inv[i].request_time, inv[j].start_time, inv[j].end_time)
          /\ OpenWindow(j)
          /\ OthersInWindow(j) \subseteq {FAILED} )
        => ~ReplayedFailure(j) /\ Executed(j)

\* a lookup of the client on its open connection is held in last
Lookup == last.op \in {"check", "retrieve"} /\ conn = "open"
\* it matched a row: True from the existence check; from retrieval anything but
\* (False, None), pickle.load raising on the row it selected
Found ==
    IF last.op = "check" THEN last.out.val
    ELSE IF last.out.exc # "" THEN TRUE ELSE last.out.val[1]
\* the row has the fingerprint, branch and status that the lookup asked for
Asked(row) ==
    /\ row.operation_hash = last.operation_hash
    /\ row.branch_idx = last.branch_idx
    /\ (last.status = Omitted \/ row.status = last.status)

\* C6 (Branch isolation): a lookup under one branch is never satisfied by the
\* records of another branch: when the table holds no record of the branch
\* asked for, the existence check and the retrieval find nothing; an
\* invocation that returned, polled or replayed a failure had a record of its
\* own branch in its window.
C6_BranchIsolation ==
    /\ (Lookup /\ \A n \in 1 .. Len(rows) : rows[n].branch_idx # last.branch_idx)
       => ~Found
    /\ \A i \in Invocations :
         (Returned(i) \/ PollTimedOut(i) \/ ReplayedFailure(i)) => inv[i].seen # {}

\* a lookup under one branch found nothing although a record of the same
\* fingerprint and status lies in the window under the other branch
C6_Witness ==
    /\ Lookup /\ ~Found
    /\ \E n \in 1 .. Len(rows) :
         /\ rows[n].operation_hash = last.operation_hash
         /\ rows[n].branch_idx # last.branch_idx
         /\ (last.status = Omitted \/ rows[n].status = last.status)
         /\ InWindow(rows[n].timestamp, last.start_time, last.end_time)

\* C7 (Time-window filtering): the existence check and the retrieval match a
\* record of the fingerprint, branch and status asked for, with logical time T,
\* for the window [s, e] if and only if s <= T <= e, an infinite e being no
\* upper limit.
C7_TimeWindowFiltering ==
    Lookup =>
        (Found <=> \E n \in 1 .. Len(rows) :
                      /\ Asked(rows[n])
                      /\ InWindow(rows[n].timestamp, last.start_time, last.end_time))

\* a record whose logical time is the end bound of a finite window is matched
C7_Witness ==
    /\ Lookup /\ Found
    /\ last.end_time # Inf
    /\ \E n \in 1 .. Len(rows) : Asked(rows[n]) /\ rows[n].timestamp = last.end_time

C9_PriorityOrder ==
    \A i \in Invocations :
        Done(i) =>
            /\ COMPLETED \in inv[i].seen => Returned(i) /\ ~Executed(i)
            /\ (COMPLETED \notin inv[i].seen /\ PENDING \in inv[i].seen)
               => /\ Returned(i) \/ PollTimedOut(i)
                  /\ ~ReplayedFailure(i)
                  /\ ~Executed(i)
            /\ ReplayedFailure(i) => inv[i].seen \cap {COMPLETED, PENDING} = {}

\* C10 (Bounded polling): an invocation that finds a Pending record in its
\* window, where no Completed record ever appears in the window, ends with the
\* poll-timeout error and does not execute the operation.
C10_PollingBounded ==
    \A i \in Invocations :
        ( /\ Done(i)
          /\ PENDING \in inv[i].seen
          /\ COMPLETED \notin inv[i].seen
          /\ COMPLETED \notin InWindowNow(i) )
        => PollTimedOut(i) /\ ~Executed(i)

\* C11 (Failure never swallowed): an invocation on an open window whose
\* operation raises, and which finds no Completed and no Pending record of
\* another attempt, executes the operation, marks the record it inserted Failed
\* with the failure text, and ends by raising: it neither returns nor leaves
\* its record Pending.
C11_FailureNeverSwallowed ==
    \A i \in Invocations :
        ( /\ Done(i)
          /\ ~Succeeds(inv[i].func)
          /\ OpenWindow(i)
          /\ OthersInWindow(i) \subseteq {FAILED} )
        => /\ Executed(i)
           /\ inv[i].row_idx \in 1 .. Len(rows)
           /\ rows[inv[i].row_idx].status = FAILED
           /\ rows[inv[i].row_idx].result = format_exception(BoomError)
           /\ ~Returned(i)

\* ------------------------------------- threads that share one SQLiteCache
\* the methods that execute a statement on self.conn; update_operation_status
\* raises at pickle.dump(result) before it reaches "with self.conn"
Methods ==
    {"create_table_if_not_exists", "insert_operation_started",
     "check_if_record_exists_with_status", "retrieve_earliest_record"}

\* a thread enters "with self.conn" of a method on the entered store; only
\* create_table_if_not_exists is inside "with self.lock"
thread_begin(t, method) ==
    /\ running[t] = None
    /\ conn = "open"
    /\ IF method = "create_table_if_not_exists"
       THEN lock = 0 /\ lock' = t
       ELSE UNCHANGED lock
    /\ method = "insert_operation_started"
       => Len(rows) + Cardinality({u \in Threads : running[u] = method}) < MaxRows
    /\ running' = [running EXCEPT ![t] = method]
    /\ UNCHANGED <<now, table, rows, conn, last, inv, calls>>

\* its statement takes effect and the thread leaves the method
thread_end(t) ==
    /\ running[t] # None
    /\ IF running[t] = "insert_operation_started"
       THEN \E h \in Hashes, b \in Branches, ts \in Times :
               rows' = insert_operation_started(conn, rows, h, b, ts).db
       ELSE UNCHANGED rows
    /\ lock' = IF running[t] = "create_table_if_not_exists" THEN 0 ELSE lock
    /\ running' = [running EXCEPT ![t] = None]
    /\ UNCHANGED <<now, table, conn, last, inv, calls>>

Begin == \E t \in Threads, method \in Methods : thread_begin(t, method)
End == \E t \in Threads : thread_end(t)

NextLock ==
    \/ __enter__
    \/ client_return
    \/ Begin
    \/ End

SpecLock == Init /\ [][NextLock]_vars

\* C12 (Serialized by the store's mutex): a thread that is executing a
\* statement of a store method on the connection holds the lock of the store,
\* so no two threads are executing statements at the same time.
C12_SerializedByLock ==
    \A t \in Threads : running[t] # None => lock = t

\* C14 (Eventual convergence): once an invocation on the default window whose
\* operation succeeded has ended, no other attempt being in flight, every
\* later invocation of the same fingerprint and branch whose window holds that
\* attempt returns the one recorded result and does not execute the operation.
C14_EventualConvergence ==
    \A i, j \in Invocations :
        ( /\ i # j /\ Done(i) /\ Done(j)
          /\ i \in inv[j].after
          /\ SameCall(i, j)
          /\ Succeeds(inv[i].func)
          /\ DefaultWindow(i) /\ OnlyFrom({i}, i)
          /\ InWindow(inv[i].request_time, inv[j].start_time, inv[j].end_time)
          /\ OnlyFrom({i}, j)
          /\ \A k \in Invocations : inv[k].pc \in {"idle", "done"} )
        => /\ Returned(j)
           /\ ~Executed(j)
           /\ inv[i].row_idx \in 1 .. Len(rows)
           /\ inv[j].out.val = rows[inv[i].row_idx].result

\* ------------------------------------------ the fingerprint of a call
\* calls that differ in their positional arguments, in the order and the
\* values of their keyword arguments, and in the reserved keys they carry
ArgsHash == { << <<"a">> >>, << <<"a">>, <<"b">> >>, << <<"b">>, <<"a">> >> }

KwargsHash ==
    LET k == <<"k", <<"x">>>>
        k2 == <<"k", <<"y">>>>
        q == <<"q", <<"y">>>>
        w == <<"worker_id", <<"w">>>>
        b == <<"cache_branch", 1>>
        s == <<"experiment_start_timestamp", 1>>
        e == <<"experiment_end_timestamp", 1>>
    IN { <<>>, <<k>>, <<k, q>>, <<q, k>>, <<k2, q>>, <<w, k>>, <<q, b, k>>,
         <<w, q, b, k, s, e>>, <<k, e, s, q, b, w>>, <<e, s, b, w>> }

CallHash ==
    \E i \in Invocations, func \in Funcs, args \in ArgsHash, kwargs \in KwargsHash :
        wrapper_call(i, func, args, kwargs)

NextHash == CallHash

SpecHash == Init /\ [][NextHash]_vars

Called(i) == inv[i].pc # "idle"
\* the set of (key, value) pairs of a dict
Pairs(kwargs) == { kwargs[n] : n \in 1 .. Len(kwargs) }

CallRace ==
    \E i \in Invocations, func \in Funcs : wrapper_call(i, func, << <<"a">> >>, <<>>)

NextRace ==
    \/ Tick
    \/ CallRace
    \/ Step

SpecRace ==
    /\ Init
    /\ [][NextRace]_vars
    /\ WF_vars(CallRace)
    /\ \A i \in Invocations : WF_vars(wrapper_step(i))

\* two invocations of the same fingerprint and branch on open windows have
\* both inserted a record and both executed the operation
RaceHappened ==
    \E i, j \in Invocations :
        /\ i # j
        /\ Called(i) /\ Called(j)
        /\ SameCall(i, j)
        /\ OpenWindow(i) /\ OpenWindow(j)
        /\ inv[i].row_idx \in 1 .. Len(rows) /\ inv[j].row_idx \in 1 .. Len(rows)
        /\ inv[i].row_idx # inv[j].row_idx
        /\ Executed(i) /\ Executed(j)

\* every invocation has been called, all with the same fingerprint and branch
AllSameCall ==
    \A i, j \in Invocations : Called(i) /\ Called(j) /\ SameCall(i, j)

C19_OwnRecordInWindow ==
    \A i \in Invocations :
        ( /\ Done(i)
          /\ Succeeds(inv[i].func)
          /\ OpenWindow(i)
          /\ OthersInWindow(i) \cap {COMPLETED, PENDING} = {} )
        => /\ Executed(i)
           /\ inv[i].row_idx \in Matching(i)
           /\ Returned(i)
           /\ inv[i].out.val \in Values

\* C20 (Initialized store): the store of an invocation has its connection
\* open, and the table exists, from before the first query of the invocation
\* to its end.
C20_InitializedStore ==
    \A i \in Invocations :
        Called(i) => inv[i].cache_client = "open" /\ table = TRUE
====
